---------------------------- MODULE Spec2Model ----------------------------
(***************************************************************************)
(* commentlogger, prod.py: the comment-to-log-statement rewriter.          *)
(*                                                                         *)
(* Text is modelled as it is in the program: a string is a sequence of     *)
(* one-character strings, a file is one such sequence holding "\n", and    *)
(* strip, partition, startswith, upper, lower, splitlines, join and the    *)
(* three regular expressions are computed character by character.          *)
(* Python's ast.parse is a library; it is modelled by a parser of the      *)
(* small subset of Python the input files are drawn from.                  *)
(***************************************************************************)
EXTENDS Integers, Sequences, FiniteSets, TLC

VARIABLES
    LOGLEVELS,          \* prod.py:12   the module-level sorted list of level names
    comment,            \* parseComment's argument
    resolved,           \* the value of the next(...) expression of prod.py:34
    parsed,             \* parseComment's return value
    sourceCode,         \* injectLogging: the text read from infilepath
    loggerName,         \* injectLogging: the logger identifier in use
    decoratedFunctions, \* injectLogging: names returned by extractLoggerInfo
    lineToFunction,     \* injectLogging: 1-based line number -> function name
    lines,              \* injectLogging: sourceCode.splitlines()
    newLines,           \* injectLogging: the output lines built so far
    origin,             \* history: for each entry of newLines, where it came from
    importsLogging,     \* injectLogging: 'import logging' in sourceCode
    addedImports,       \* injectLogging: the bootstrap has been appended
    i,                  \* injectLogging: the loop index (0-based)
    result,             \* injectLogging: the returned text
    pc,                 \* where injectLogging stands
    run                 \* 1: the first transform, 2: the transform of its output

vars == <<LOGLEVELS, comment, resolved, parsed, sourceCode, loggerName,
          decoratedFunctions, lineToFunction, lines, newLines, origin,
          importsLogging, addedImports, i, result, pc, run>>

-----------------------------------------------------------------------------
(* Characters and strings                                                  *)

NL == "\n"

Lowers == <<"a", "b", "c", "d", "e", "f", "g", "h", "i", "j", "k", "l", "m",
            "n", "o", "p", "q", "r", "s", "t", "u", "v", "w", "x", "y", "z">>

Uppers == <<"A", "B", "C", "D", "E", "F", "G", "H", "I", "J", "K", "L", "M",
            "N", "O", "P", "Q", "R", "S", "T", "U", "V", "W", "X", "Y", "Z">>

\* The characters in use, in increasing code point order.
Ascii == <<NL, " ", "\"", "#", "(", ")", ".", ":", "=", "@">> \o Uppers
            \o <<"_">> \o Lowers

Range(s) == {s[k] : k \in DOMAIN s}

IndexIn(s, c) == IF c \in Range(s) THEN CHOOSE k \in DOMAIN s : s[k] = c ELSE 0

CodePoint(c) == IndexIn(Ascii, c)

\* str.isspace for the characters in use
Whitespace == {" ", NL}

\* the regular expression class \w
WordChars == Range(Lowers) \cup Range(Uppers) \cup {"_"}

UpperChar(c) == IF c \in Range(Lowers) THEN Uppers[IndexIn(Lowers, c)] ELSE c

LowerChar(c) == IF c \in Range(Uppers) THEN Lowers[IndexIn(Uppers, c)] ELSE c

\* str.upper
Upper(s) == [k \in DOMAIN s |-> UpperChar(s[k])]

\* str.lower
Lower(s) == [k \in DOMAIN s |-> LowerChar(s[k])]

\* str.startswith
StartsWith(s, p) == Len(p) <= Len(s) /\ SubSeq(s, 1, Len(p)) = p

\* the slice s[k:] for a 0-based k
Drop(s, k) == SubSeq(s, k + 1, Len(s))

\* the index of the first character of s that is in (or, with inSet FALSE, not
\* in) the set cs; Len(s) + 1 when there is none
FirstWhere(s, cs, inSet) ==
    LET hits == {k \in DOMAIN s : (s[k] \in cs) = inSet}
    IN  IF hits = {} THEN Len(s) + 1
        ELSE CHOOSE k \in hits : \A j \in hits : k <= j

LastNonSpace(s) ==
    LET hits == {k \in DOMAIN s : s[k] \notin Whitespace}
    IN  IF hits = {} THEN 0
        ELSE CHOOSE k \in hits : \A j \in hits : j <= k

\* str.lstrip
LStrip(s) == SubSeq(s, FirstWhere(s, Whitespace, FALSE), Len(s))

\* str.strip
Strip(s) == SubSeq(s, FirstWhere(s, Whitespace, FALSE), LastNonSpace(s))

\* the text of s before the first occurrence of the character c (all of s when
\* c does not occur): str.partition(c)[0] and str.split(c)[0]
Before(s, c) == SubSeq(s, 1, FirstWhere(s, {c}, TRUE) - 1)

\* the text of s after the first occurrence of c ("" when c does not occur):
\* str.partition(c)[2]
After(s, c) == SubSeq(s, FirstWhere(s, {c}, TRUE) + 1, Len(s))

\* the operator `in` on strings
Contains(s, sub) ==
    \E k \in 1..(Len(s) - Len(sub) + 1) : SubSeq(s, k, k + Len(sub) - 1) = sub

\* the order of < on strings: by code point, a proper prefix first
StrLess(s, t) ==
    \/ Len(s) < Len(t) /\ SubSeq(t, 1, Len(s)) = s
    \/ \E k \in 1..Len(s) :
          /\ k <= Len(t)
          /\ SubSeq(s, 1, k - 1) = SubSeq(t, 1, k - 1)
          /\ CodePoint(s[k]) < CodePoint(t[k])

RECURSIVE Insert(_, _)
Insert(sorted, s) ==
    IF sorted = <<>> \/ StrLess(s, Head(sorted)) THEN <<s>> \o sorted
    ELSE <<Head(sorted)>> \o Insert(Tail(sorted), s)

RECURSIVE Sorted(_)
\* the builtin sorted() on a list of strings
Sorted(seq) == IF seq = <<>> THEN <<>> ELSE Insert(Sorted(Tail(seq)), Head(seq))

-----------------------------------------------------------------------------
(* prod.py:5-12  the level names                                           *)

CRITICAL == <<"C", "R", "I", "T", "I", "C", "A", "L">>
FATAL    == <<"F", "A", "T", "A", "L">>
ERROR    == <<"E", "R", "R", "O", "R">>
WARN     == <<"W", "A", "R", "N">>
WARNING  == <<"W", "A", "R", "N", "I", "N", "G">>
INFO     == <<"I", "N", "F", "O">>
DEBUG    == <<"D", "E", "B", "U", "G">>
NOTSET   == <<"N", "O", "T", "S", "E", "T">>

\* logging._nameToLevel, in the dictionary's order
NameToLevel ==
    << [k |-> CRITICAL, v |-> 50], [k |-> FATAL, v |-> 50],
       [k |-> ERROR, v |-> 40], [k |-> WARN, v |-> 30],
       [k |-> WARNING, v |-> 30], [k |-> INFO, v |-> 20],
       [k |-> DEBUG, v |-> 10], [k |-> NOTSET, v |-> 0] >>

\* prod.py:9 as a fault: the longer of two same-level names is popped
PopsKeyLonger(k, v) ==
    \E n \in DOMAIN NameToLevel :
        /\ StartsWith(k, NameToLevel[n].k)
        /\ v = NameToLevel[n].v
        /\ k # NameToLevel[n].k

\* prod.py:9  any(_k.startswith(k) and v==_v for _k,_v in ... if k != _k)
PopsKey(k, v) ==
    \E n \in DOMAIN NameToLevel :
        /\ StartsWith(NameToLevel[n].k, k)
        /\ v = NameToLevel[n].v
        /\ k # NameToLevel[n].k

RECURSIVE PopLoop(_, _)
\* prod.py:8-10  the loop over the table; keys is the copy made at line 6
PopLoop(keys, n) ==
    IF n > Len(NameToLevel) THEN keys
    ELSE LET e == NameToLevel[n]
         IN  PopLoop(IF PopsKey(e.k, e.v)
                        THEN SelectSeq(keys, LAMBDA x : x # e.k)
                        ELSE keys,
                     n + 1)

\* prod.py:6-12
BuildLogLevels ==
    Sorted(PopLoop([n \in DOMAIN NameToLevel |-> NameToLevel[n].k], 1))

-----------------------------------------------------------------------------
(* prod.py:15-40  parseComment                                             *)

\* the outcome StopIteration of prod.py:36: no level name is empty
NotFound == <<>>

\* prod.py:34 as a fault: the prefix is compared without upper()
ResolveCaseSensitive(levels, level) ==
    LET hits == {n \in DOMAIN levels : StartsWith(levels[n], level)}
    IN  IF hits = {} THEN NotFound
        ELSE levels[CHOOSE n \in hits : \A m \in hits : n <= m]

\* prod.py:34  next(L for L in LOGLEVELS if L.startswith(level.upper())),
\* NotFound standing for StopIteration
Resolve(levels, level) ==
    LET hits == {n \in DOMAIN levels : StartsWith(levels[n], Upper(level))}
    IN  IF hits = {} THEN NotFound
        ELSE levels[CHOOSE n \in hits : \A m \in hits : n <= m]

\* prod.py:25-40
parseComment(levels, c) ==
    LET level   == Strip(Before(c, ":"))
        logline == Strip(After(c, ":"))
    IN  IF level = <<>> THEN [level |-> INFO, logline |-> c]
        ELSE IF Resolve(levels, level) = NotFound
             THEN [level |-> INFO, logline |-> c]
             ELSE [level |-> Resolve(levels, level), logline |-> logline]

-----------------------------------------------------------------------------
(* Calls of parseComment and of the level lookup on drawn texts            *)

MaxCommentLen == 3

CommentAlphabet == {"w", "W", "a", "n", "e", "z", ":", " "}

RECURSIVE TextsUpTo(_)
TextsUpTo(n) ==
    IF n = 0 THEN {<<>>}
    ELSE LET shorter == TextsUpTo(n - 1)
         IN  shorter \cup {Append(t, c) : t \in shorter, c \in CommentAlphabet}

BOGUS == <<"B", "O", "G", "U", "S">>

Title(s) == [k \in DOMAIN s |-> IF k = 1 THEN UpperChar(s[k]) ELSE LowerChar(s[k])]

Studly(s) == [k \in DOMAIN s |-> IF k % 2 = 0 THEN UpperChar(s[k]) ELSE LowerChar(s[k])]

\* every prefix of every name of the logging table and of one other word, in
\* four letter cases, alone and as the prefix of a message
LevelTexts ==
    LET words == {NameToLevel[n].k : n \in DOMAIN NameToLevel} \cup {BOGUS}
        heads == UNION {{SubSeq(w, 1, k) : k \in 1..Len(w)} : w \in words}
        cased == UNION {{h, Lower(h), Title(h), Studly(h)} : h \in heads}
    IN  cased \cup {h \o <<":", " ", "o", "k">> : h \in cased}

CommentInputs == TextsUpTo(MaxCommentLen) \cup LevelTexts

Pending == [done |-> FALSE, level |-> <<>>, logline |-> <<>>]

NotCalled == [done |-> FALSE, value |-> <<>>]

\* the state of a transform that is not running
Idle ==
    /\ sourceCode = <<>>
    /\ loggerName = <<>>
    /\ decoratedFunctions = {}
    /\ lineToFunction = <<>>
    /\ lines = <<>>
    /\ newLines = <<>>
    /\ origin = <<>>
    /\ importsLogging = FALSE
    /\ addedImports = FALSE
    /\ i = 0
    /\ result = <<>>
    /\ pc = "idle"
    /\ run = 0

transformVars == <<sourceCode, loggerName, decoratedFunctions, lineToFunction,
                   lines, newLines, origin, importsLogging, addedImports, i,
                   result, pc, run>>

InitParse ==
    /\ LOGLEVELS = BuildLogLevels
    /\ comment \in CommentInputs
    /\ resolved = NotCalled
    /\ parsed = Pending
    /\ Idle

\* prod.py:34 evaluated on the drawn text
ResolveLevel ==
    /\ ~resolved.done
    /\ resolved' = [done |-> TRUE, value |-> Resolve(LOGLEVELS, comment)]
    /\ UNCHANGED <<LOGLEVELS, comment, parsed, transformVars>>

\* prod.py:15-40 called on the drawn text
CallParseComment ==
    /\ ~parsed.done
    /\ parsed' = [done |-> TRUE] @@ parseComment(LOGLEVELS, comment)
    /\ UNCHANGED <<LOGLEVELS, comment, resolved, transformVars>>

NextParse == ResolveLevel \/ CallParseComment

SpecParse == InitParse /\ [][NextParse]_vars

-----------------------------------------------------------------------------
(* Claims about the level lookup and parseComment                          *)

Canonical == Range(LOGLEVELS)

\* p is a prefix of name, letter case ignored
IsPrefixAnyCase(p, name) ==
    /\ Len(p) <= Len(name)
    /\ \A k \in 1..Len(p) : LowerChar(p[k]) = LowerChar(name[k])

Matching(p) == {name \in Canonical : IsPrefixAnyCase(p, name)}

\* C7: looking a text up among the canonical level names gives: for the full
\* name of a canonical level in any letter case, that level; for a non-empty
\* text that is a prefix (letter case ignored) of exactly one canonical level,
\* that level; for a text that is a prefix of none, NotFound; and when several
\* names match, the one that comes first in sorted order.
C7_LevelResolution ==
    resolved.done =>
        /\ \A name \in Canonical :
              Lower(comment) = Lower(name) => resolved.value = name
        /\ \A name \in Canonical :
              (comment # <<>> /\ Matching(comment) = {name})
                  => resolved.value = name
        /\ Matching(comment) = {} => resolved.value = NotFound
        /\ Matching(comment) # {} =>
              /\ resolved.value \in Matching(comment)
              /\ \A name \in Matching(comment) :
                    name = resolved.value \/ StrLess(resolved.value, name)

\* a prefix of one level, in mixed case and equal to a name the table
\* dropped, has been looked up and gave the level
C7_Witness ==
    /\ resolved.done
    /\ comment = <<"W", "a", "r", "n">>
    /\ resolved.value = WARNING

\* what C5 says parseComment returns
Classified(c) ==
    LET prefix == Strip(Before(c, ":"))
        lookup == Resolve(LOGLEVELS, prefix)
    IN  IF ":" \notin Range(c) \/ prefix = <<>>
            THEN [level |-> INFO, logline |-> c]
        ELSE IF lookup # NotFound
            THEN [level |-> lookup, logline |-> Strip(After(c, ":"))]
        ELSE [level |-> INFO, logline |-> c]

\* C5: parseComment(c) is (INFO, c) when c has no colon or nothing before its
\* first colon; (L, the trimmed text after the first colon) when the text
\* before the first colon resolves to level L; and (INFO, c) otherwise.
C5_ClassifyAsSpecified ==
    parsed.done =>
        /\ parsed.level = Classified(comment).level
        /\ parsed.logline = Classified(comment).logline

\* the severity methods of a logger
LoggerMethods ==
    {Lower(DEBUG), Lower(INFO), Lower(WARNING), Lower(ERROR), Lower(CRITICAL),
     Lower(FATAL)}

\* C10: the level parseComment returns, in lower case, is a severity method of
\* a logger (debug, info, warning, error, critical or fatal) for every comment.
C10_LevelIsLoggerMethod ==
    parsed.done => Lower(parsed.level) \in LoggerMethods

-----------------------------------------------------------------------------
(* Files as text                                                           *)

RECURSIVE SplitLines(_)
\* str.splitlines
SplitLines(text) ==
    IF text = <<>> THEN <<>>
    ELSE IF NL \notin Range(text) THEN <<text>>
    ELSE <<Before(text, NL)>> \o SplitLines(After(text, NL))

RECURSIVE Join(_)
\* '\n'.join
Join(ls) ==
    IF ls = <<>> THEN <<>>
    ELSE IF Len(ls) = 1 THEN ls[1]
    ELSE ls[1] \o <<NL>> \o Join(Tail(ls))

-----------------------------------------------------------------------------
(* ast.parse on the subset of Python the input files are written in: one   *)
(* statement per line; a statement is a decorator, a def header, an        *)
(* import, or an expression; blocks are opened by def headers only; no     *)
(* string literal holds a '#', so a comment starts at the first '#'.       *)

None == <<>>

DefKeyword == <<"d", "e", "f", " ">>
FromKeyword == <<"f", "r", "o", "m", " ">>
ImportKeyword == <<"i", "m", "p", "o", "r", "t", " ">>
commentlogger == <<"c", "o", "m", "m", "e", "n", "t", "l", "o", "g", "g", "e", "r">>

\* the longest prefix of s made of characters of cs
Run(s, cs) == SubSeq(s, 1, FirstWhere(s, cs, FALSE) - 1)

Count(s, c) == Cardinality({k \in DOMAIN s : s[k] = c})

Blank ==
    [kind |-> "blank", indent |-> 0, form |-> "", name |-> None, attr |-> None,
     isCall |-> FALSE, hasArgs |-> FALSE, argIsName |-> FALSE, arg |-> None,
     module |-> None, asname |-> None]

\* a decorator line: '@' expression, the expression a name, a dotted name or
\* a call of one with at most one argument
DecoratorStmt(code, base) ==
    LET expr   == LStrip(Drop(code, 1))
        id     == Run(expr, WordChars)
        rest1  == Drop(expr, Len(id))
        dotted == rest1 # <<>> /\ Head(rest1) = "."
        attr   == IF dotted THEN Run(Tail(rest1), WordChars) ELSE None
        rest2  == LStrip(IF dotted THEN Drop(rest1, 1 + Len(attr)) ELSE rest1)
        call   == rest2 # <<>> /\ Head(rest2) = "("
        inside == IF call THEN Strip(Before(Tail(rest2), ")")) ELSE None
        wellFormed ==
            /\ id # <<>>
            /\ dotted => attr # <<>>
            /\ IF call THEN Count(rest2, ")") = 1 /\ rest2[Len(rest2)] = ")"
               ELSE rest2 = <<>>
    IN  IF ~wellFormed THEN [base EXCEPT !.kind = "error"]
        ELSE [base EXCEPT !.kind = "decorator",
                          !.form = IF dotted THEN "Attribute" ELSE "Name",
                          !.name = id, !.attr = attr, !.isCall = call,
                          !.hasArgs = (inside # <<>>),
                          !.argIsName = (inside # <<>> /\ Range(inside) \subseteq WordChars),
                          !.arg = inside]

DefStmt(code, base) ==
    LET sig == LStrip(Drop(code, Len(DefKeyword)))
        id  == Run(sig, WordChars)
    IN  IF id # <<>> /\ Drop(sig, Len(id)) = <<"(", ")", ":">>
            THEN [base EXCEPT !.kind = "def", !.name = id]
            ELSE [base EXCEPT !.kind = "error"]

ImportStmt(code, base) ==
    LET mod == Run(LStrip(Drop(code, Len(ImportKeyword))), WordChars)
    IN  IF mod # <<>> /\ code = ImportKeyword \o mod
            THEN [base EXCEPT !.kind = "import", !.name = mod]
            ELSE [base EXCEPT !.kind = "error"]

ImportFromStmt(code, base) ==
    LET mod == Run(Drop(code, Len(FromKeyword)), WordChars)
        id  == Run(Drop(code, Len(FromKeyword) + Len(mod) + 1 + Len(ImportKeyword)),
                   WordChars)
    IN  IF mod # <<>> /\ id # <<>>
           /\ code = FromKeyword \o mod \o <<" ">> \o ImportKeyword \o id
            THEN [base EXCEPT !.kind = "importfrom", !.module = mod, !.name = id]
            ELSE [base EXCEPT !.kind = "error"]

\* the statement on one line
StmtOf(line) ==
    LET code == Strip(Before(line, "#"))
        base == [Blank EXCEPT !.indent = FirstWhere(line, {" "}, FALSE) - 1]
    IN  IF code = <<>> THEN Blank
        ELSE IF Head(code) = "@" THEN DecoratorStmt(code, base)
        ELSE IF StartsWith(code, DefKeyword) THEN DefStmt(code, base)
        ELSE IF StartsWith(code, ImportKeyword) THEN ImportStmt(code, base)
        ELSE IF StartsWith(code, FromKeyword) THEN ImportFromStmt(code, base)
        ELSE IF Count(code, "(") = Count(code, ")") /\ Count(code, "\"") % 2 = 0
            THEN [base EXCEPT !.kind = "simple"]
        ELSE [base EXCEPT !.kind = "error"]

Stmts(text) ==
    LET ls == SplitLines(text)
    IN  [n \in DOMAIN ls |-> StmtOf(ls[n])]

\* the lines that hold a statement
Real(st) == {n \in DOMAIN st : st[n].kind # "blank"}

\* the statement line before line n, 0 when there is none
PrevReal(st, n) ==
    LET before == {m \in Real(st) : m < n}
    IN  IF before = {} THEN 0 ELSE CHOOSE m \in before : \A k \in before : k <= m

\* ast.parse does not raise SyntaxError
Parses(st) ==
    /\ \A n \in Real(st) : st[n].kind # "error"
    /\ \A n \in Real(st) :
          LET p == PrevReal(st, n)
          IN  IF p = 0 THEN st[n].indent = 0
              ELSE IF st[p].kind = "def" THEN st[n].indent > st[p].indent
              ELSE IF st[p].kind = "decorator"
                  THEN st[n].indent = st[p].indent /\ st[n].kind \in {"decorator", "def"}
              ELSE /\ st[n].indent <= st[p].indent
                   /\ \E r \in Real(st) :
                         /\ r < n
                         /\ st[r].indent = st[n].indent
                         /\ \A m \in Real(st) : (r < m /\ m < n) => st[m].indent >= st[n].indent
    /\ \A n \in Real(st) :
          (\A m \in Real(st) : m <= n) => st[n].kind \notin {"def", "decorator"}

\* the lines of the FunctionDef nodes
Defs(st) == {n \in Real(st) : st[n].kind = "def"}

\* node.end_lineno of the FunctionDef at line n
EndLineno(st, n) ==
    LET body == {m \in Real(st) :
                    /\ m > n
                    /\ \A k \in Real(st) : (n < k /\ k <= m) => st[k].indent > st[n].indent}
    IN  CHOOSE m \in body : \A k \in body : k <= m

\* how deep in the tree the FunctionDef at line n is
Depth(st, n) == Cardinality({q \in Defs(st) : q < n /\ n <= EndLineno(st, q)})

\* node.decorator_list of the FunctionDef at line n, as line numbers
DecoratorList(st, n) ==
    {m \in Real(st) :
        /\ m < n
        /\ \A k \in Real(st) : (m <= k /\ k < n) => st[k].kind = "decorator"}

\* ast.walk visits node p before node q (breadth first: by depth, then by line)
WalkedBefore(st, p, q) ==
    \/ Depth(st, p) < Depth(st, q)
    \/ Depth(st, p) = Depth(st, q) /\ p < q

-----------------------------------------------------------------------------
(* prod.py:89-149  extractLoggerInfo                                       *)

\* prod.py:74, 110, 115  alias.asname if alias.asname else alias.name
ImportedName(stmt) == IF stmt.asname # None THEN stmt.asname ELSE stmt.name

\* prod.py:103-116  the names imported from commentlogger
ClNames(st) ==
    {ImportedName(st[n]) : n \in {m \in Real(st) :
        \/ st[m].kind = "importfrom" /\ st[m].module = commentlogger
        \/ st[m].kind = "import" /\ st[m].name = commentlogger}}

\* prod.py:126-134  decoratorName for one decorator, None when it gets none
DecoratorName(dec, clNames) ==
    IF dec.form = "Name" THEN dec.name
    ELSE IF dec.form = "Attribute" /\ dec.name \in clNames
        THEN dec.name \o <<".">> \o dec.attr
    ELSE None

\* prod.py:125-144  the decorator names a logger for its function
NamesLogger(dec, clNames) ==
    /\ dec.isCall
    /\ DecoratorName(dec, clNames) # None
    /\ \/ DecoratorName(dec, clNames) \in clNames
       \/ Before(DecoratorName(dec, clNames), ".") \in clNames
    /\ dec.hasArgs
    /\ dec.argIsName

\* prod.py:122-144  the (function line, decorator line) pairs that reach
\* lines 143-144
LoggerHits(st) ==
    {h \in Defs(st) \X Real(st) :
        h[2] \in DecoratorList(st, h[1]) /\ NamesLogger(st[h[2]], ClNames(st))}

\* prod.py:143  the last assignment to loggerName in the order of the walk
LastHit(st) ==
    CHOOSE h \in LoggerHits(st) :
        \A g \in LoggerHits(st) :
            \/ g = h
            \/ WalkedBefore(st, g[1], h[1])
            \/ g[1] = h[1] /\ g[2] < h[2]

\* prod.py:99-149
extractLoggerInfo(text) ==
    LET st == Stmts(text)
    IN  IF ~Parses(st) \/ LoggerHits(st) = {}
            THEN [loggerName |-> None, decoratedFunctions |-> {}]
            ELSE [loggerName |-> st[LastHit(st)[2]].arg,
                  decoratedFunctions |-> {st[h[1]].name : h \in LoggerHits(st)}]

-----------------------------------------------------------------------------
(* prod.py:43-86  shouldSkipDecoratorLine                                  *)

\* prod.py:60  re.match(r'@([\w.]+)\s*\(', stripped): group 1, None without a match
DecoratorMatch(stripped) ==
    LET dotted == Run(Tail(stripped), WordChars \cup {"."})
        rest   == LStrip(Drop(stripped, 1 + Len(dotted)))
    IN  IF dotted # <<>> /\ rest # <<>> /\ Head(rest) = "(" THEN dotted ELSE None

\* prod.py:55-86 as a fault: every decorator call is skipped, whatever it names
shouldSkipAnyDecorator(line, text) ==
    LET stripped == Strip(line)
    IN  /\ stripped # <<>>
        /\ Head(stripped) = "@"
        /\ DecoratorMatch(stripped) # None

\* prod.py:55-86
shouldSkipDecoratorLine(line, text) ==
    LET stripped      == Strip(line)
        decoratorName == DecoratorMatch(stripped)
        baseName      == Before(decoratorName, ".")
        st            == Stmts(text)
    IN  /\ stripped # <<>>
        /\ Head(stripped) = "@"
        /\ decoratorName # None
        /\ Parses(st)
        /\ \E n \in Real(st) :
              \/ /\ st[n].kind = "importfrom"
                 /\ st[n].module = commentlogger
                 /\ \/ baseName = ImportedName(st[n])
                    \/ decoratorName = ImportedName(st[n])
              \/ /\ st[n].kind = "import"
                 /\ st[n].name = commentlogger
                 /\ baseName = (IF st[n].asname # None THEN st[n].asname
                                ELSE commentlogger)

-----------------------------------------------------------------------------
(* prod.py:152-241  injectLogging                                          *)

ImportLogging == <<"i", "m", "p", "o", "r", "t", " ", "l", "o", "g", "g", "i", "n", "g">>

TripleDouble == <<"\"", "\"", "\"">>

TripleSingle == <<"'", "'", "'">>

DefaultLogger == <<"l", "o", "g", "g", "e", "r">>

\* prod.py:181-188  lineToFunction: each covered line goes to the function
\* the walk visits last
LineToFunction(text) ==
    LET st == Stmts(text)
        covering(n) == {d \in Defs(st) : d <= n /\ n <= EndLineno(st, d)}
        last(n) == CHOOSE d \in covering(n) :
                      \A e \in covering(n) : e = d \/ WalkedBefore(st, e, d)
    IN  IF ~Parses(st) THEN <<>>
        ELSE [n \in {m \in 1..Len(st) : covering(m) # {}} |-> st[last(n)].name]

\* prod.py:195-200 as a fault: the test i > 0 is missing
BootstrapSiteAnyIndex(line, index) ==
    LET stripped == Strip(line)
    IN  /\ ~StartsWith(stripped, <<"#">>)
        /\ ~StartsWith(stripped, TripleDouble)
        /\ ~StartsWith(stripped, TripleSingle)
        /\ stripped # <<>>

\* prod.py:195-200  the line is one the bootstrap is put in front of
BootstrapSite(line, index) ==
    LET stripped == Strip(line)
    IN  /\ ~StartsWith(stripped, <<"#">>)
        /\ ~StartsWith(stripped, TripleDouble)
        /\ ~StartsWith(stripped, TripleSingle)
        /\ stripped # <<>>
        /\ index > 0

\* prod.py:209  re.search(r'#\s*(.*)', line) finds a match
CommentMatch(line) == "#" \in Range(line)

\* prod.py:212  commentMatch.group(1).strip()
CommentText(line) == Strip(LStrip(After(line, "#")))

\* prod.py:213-214 as a fault: the indentation is lost
NoIndent(line) == <<>>

\* prod.py:213-214  the leading whitespace of the line
IndentOf(line) == SubSeq(line, 1, FirstWhere(line, Whitespace, FALSE) - 1)

\* prod.py:216  line.split('#')[0].strip()
PreCommentCode(line) == Strip(Before(line, "#"))

\* prod.py:217  lineToFunction.get(i + 1)
CurrFunc(map, index) == IF index + 1 \in DOMAIN map THEN map[index + 1] ELSE None

\* prod.py:219  the condition of the injection
Injects(line, index, map, decorated) ==
    /\ CommentMatch(line)
    /\ PreCommentCode(line) # <<>>
    /\ CurrFunc(map, index) \in decorated
    /\ "@" \notin Range(PreCommentCode(line))

\* prod.py:220-222
LogStatement(line, logger, levels) ==
    LET p == parseComment(levels, CommentText(line))
    IN  IndentOf(line) \o logger \o <<".">> \o Lower(p.level)
            \o <<"(", "\"">> \o p.logline \o <<"\"", ")">>

\* prod.py:163-190  read the file, analyse it, set the loop up
Analyze ==
    /\ pc = "start"
    /\ LET info == extractLoggerInfo(sourceCode)
       IN  /\ loggerName' = (IF info.loggerName # None THEN info.loggerName
                             ELSE DefaultLogger)
           /\ decoratedFunctions' = info.decoratedFunctions
    /\ lines' = SplitLines(sourceCode)
    /\ newLines' = <<>>
    /\ origin' = <<>>
    /\ importsLogging' = Contains(sourceCode, ImportLogging)
    /\ addedImports' = FALSE
    /\ lineToFunction' = LineToFunction(sourceCode)
    /\ i' = 0
    /\ pc' = "loop"
    /\ UNCHANGED <<LOGLEVELS, comment, resolved, parsed, sourceCode, result, run>>

\* prod.py:191-226  one pass of the while loop
Iterate ==
    /\ pc = "loop"
    /\ i < Len(lines)
    /\ LET line      == lines[i + 1]
           bootstrap == ~addedImports /\ ~importsLogging /\ BootstrapSite(line, i)
           withImport == IF bootstrap THEN newLines \o <<ImportLogging, <<>>>>
                         ELSE newLines
           fromImport == IF bootstrap
                            THEN origin \o << [from |-> "bootstrap", line |-> i + 1],
                                              [from |-> "bootstrap", line |-> i + 1] >>
                            ELSE origin
           inject    == Injects(line, i, lineToFunction, decoratedFunctions)
       IN  /\ addedImports' = (addedImports \/ bootstrap)
           /\ IF shouldSkipDecoratorLine(line, sourceCode)
                 THEN /\ newLines' = withImport
                      /\ origin' = fromImport
                 ELSE /\ newLines' = withImport
                            \o (IF inject
                                   THEN <<LogStatement(line, loggerName, LOGLEVELS)>>
                                   ELSE <<>>)
                            \o <<line>>
                      /\ origin' = fromImport
                            \o (IF inject THEN << [from |-> "inject", line |-> i + 1] >>
                                ELSE <<>>)
                            \o << [from |-> "source", line |-> i + 1] >>
    /\ i' = i + 1
    /\ UNCHANGED <<LOGLEVELS, comment, resolved, parsed, sourceCode, loggerName,
                   decoratedFunctions, lineToFunction, lines, importsLogging,
                   result, pc, run>>

\* prod.py:228-241  join the lines, write and return them
Finish ==
    /\ pc = "loop"
    /\ i >= Len(lines)
    /\ result' = Join(newLines)
    /\ pc' = "done"
    /\ UNCHANGED <<LOGLEVELS, comment, resolved, parsed, sourceCode, loggerName,
                   decoratedFunctions, lineToFunction, lines, newLines, origin,
                   importsLogging, addedImports, i, run>>

\* the caller runs injectLogging again on the file the first run wrote
Rerun ==
    /\ pc = "done"
    /\ run = 1
    /\ sourceCode' = result
    /\ run' = 2
    /\ pc' = "start"
    /\ UNCHANGED <<LOGLEVELS, comment, resolved, parsed, loggerName,
                   decoratedFunctions, lineToFunction, lines, newLines, origin,
                   importsLogging, addedImports, i, result>>

-----------------------------------------------------------------------------
(* The input files                                                         *)

MaxLead == 1

CommentLine   == <<"#", "c">>
DocLine       == <<"\"", "\"", "\"", "d", "\"", "\"", "\"">>
TopStatement  == <<"x", " ", "#", "e", ":", "d">>
BrokenLine    == <<"x", "(">>
MarkerImport  == <<"f", "r", "o", "m", " ", "c", "o", "m", "m", "e", "n", "t",
                   "l", "o", "g", "g", "e", "r", " ", "i", "m", "p", "o", "r",
                   "t", " ", "m">>
MarkerA       == <<"@", "m", "(", "a", ")">>
MarkerB       == <<"@", "m", "(", "b", ")">>
MarkerSpaced  == <<"@", " ", "m", "(", "a", ")">>
OtherDecorator == <<"@", "o", "(", "a", ")">>
DefF          == <<"d", "e", "f", " ", "f", "(", ")", ":">>
DefG          == <<"d", "e", "f", " ", "g", "(", ")", ":">>
LevelComment  == <<"x", " ", "#", "e", ":", "d">>
EmptyComment  == <<"x", " ", "#">>
NoComment     == <<"x">>
AtInCode      == <<"x", "@", "y", " ", "#", "w">>

Indented(n, line) == [k \in 1..n |-> " "] \o line

\* up to MaxLead comment lines, then at most one other line ahead of the import
Prologues ==
    {[k \in 1..n |-> CommentLine] \o h :
        n \in 0..MaxLead,
        h \in {<<>>, <<<<>>>>, <<ImportLogging>>, <<DocLine>>, <<TopStatement>>,
               <<BrokenLine>>}}

\* def f with one statement, with or without a decorator
FirstFunctions ==
    {d \o <<DefF, Indented(1, b)>> :
        d \in {<<>>, <<MarkerA>>, <<MarkerSpaced>>, <<OtherDecorator>>},
        b \in {LevelComment, EmptyComment, NoComment, AtInCode}}

\* nothing, or a second def, named f or g, after def f or nested in it
SecondFunctions ==
    {<<>>} \cup
    {[k \in DOMAIN u |-> Indented(n, u[k])] :
        n \in {0, 1},
        u \in {d \o <<h, Indented(1, LevelComment)>> :
                  d \in {<<>>, <<MarkerB>>}, h \in {DefF, DefG}}}

Programs ==
    {Join(p \o <<MarkerImport>> \o f \o g) :
        p \in Prologues, f \in FirstFunctions, g \in SecondFunctions}

Init ==
    /\ LOGLEVELS = BuildLogLevels
    /\ comment = <<>>
    /\ resolved = NotCalled
    /\ parsed = Pending
    /\ sourceCode \in Programs
    /\ pc = "start"
    /\ run = 1
    /\ loggerName = <<>>
    /\ decoratedFunctions = {}
    /\ lineToFunction = <<>>
    /\ lines = <<>>
    /\ newLines = <<>>
    /\ origin = <<>>
    /\ importsLogging = FALSE
    /\ addedImports = FALSE
    /\ i = 0
    /\ result = <<>>

Next == Analyze \/ Iterate \/ Finish \/ Rerun

Spec == Init /\ [][Next]_vars

-----------------------------------------------------------------------------
(* Claims about injectLogging                                              *)

\* the positions of newLines that came from the given step
From(kind) == {k \in DOMAIN origin : origin[k].from = kind}

\* the output with the injected statements and the bootstrap lines deleted
Kept == [k \in DOMAIN newLines |-> IF origin[k].from = "source" THEN <<newLines[k]>> ELSE <<>>]

RECURSIVE Flatten(_)
Flatten(seqs) == IF seqs = <<>> THEN <<>> ELSE Head(seqs) \o Flatten(Tail(seqs))

\* the function definitions whose lines include line n
Covering(st, n) == {d \in Defs(st) : d <= n /\ n <= EndLineno(st, d)}

\* the innermost function definition around line n
Innermost(st, n) == CHOOSE d \in Covering(st, n) : \A e \in Covering(st, n) : e <= d

\* the FunctionDef at line d carries a marker call that names a logger
OptedIn(st, d) == \E m \in DecoratorList(st, d) : NamesLogger(st[m], ClNames(st))

\* line n of the file is a call of a name imported from commentlogger used
\* as a decorator, written with the name directly after the '@'
MarkerCallLineAt(st, ls, n) ==
    /\ Parses(st)
    /\ st[n].kind = "decorator"
    /\ st[n].isCall
    /\ st[n].name \in ClNames(st)
    /\ Strip(ls[n])[2] \in WordChars

\* the output holds source line n, unchanged, right after the given text
PrecededBy(n, text) ==
    \E k \in 2..Len(newLines) :
        /\ origin[k] = [from |-> "source", line |-> n]
        /\ newLines[k] = lines[n]
        /\ newLines[k - 1] = text

\* what the statement injected for a line reads, for the given logger
StatementFor(line, logger) ==
    [k \in 1..(FirstWhere(line, {" "}, FALSE) - 1) |-> " "]
        \o logger \o <<".">>
        \o Lower(parseComment(LOGLEVELS, CommentText(line)).level)
        \o <<"(", "\"">>
        \o parseComment(LOGLEVELS, CommentText(line)).logline
        \o <<"\"", ")">>

\* C1 as stated: with the injected statements and the bootstrap lines
\* deleted, the output is the input line sequence, marker decorator lines
\* included.
C1_EveryLineKept ==
    pc = "done" => Flatten(Kept) = lines

\* C1 as amended: with the injected statements and the bootstrap lines
\* deleted, the output is the input line sequence without its marker decorator
\* call lines, which are left out; every other line is kept, in order and
\* unchanged.
C1_EveryLineButMarkersKept ==
    pc = "done" =>
        LET st == Stmts(sourceCode)
            stay == {n \in DOMAIN lines : ~MarkerCallLineAt(st, lines, n)}
        IN  /\ \A n \in stay : \E k \in From("source") :
                  origin[k].line = n /\ newLines[k] = lines[n]
            /\ \A k \in From("source") : origin[k].line \in stay
            /\ \A k, j \in From("source") : k < j => origin[k].line < origin[j].line

\* a transform that left a marker decorator out, injected a statement and
\* added the bootstrap has finished
C1_Witness ==
    /\ pc = "done"
    /\ From("inject") # {}
    /\ From("bootstrap") # {}
    /\ Cardinality(From("source")) < Len(lines)

\* C2 as stated: a line in the body of a function decorated by marker(log),
\* with code and a trailing comment classified as (L, m), has right before it
\* in the output its own indentation followed by log.<L in lower case>("m").
C2_StatementOfDecoratedFunction ==
    pc = "done" =>
        LET st == Stmts(sourceCode)
        IN  Parses(st) =>
                \A n \in DOMAIN lines : \A d \in Defs(st) : \A m \in DecoratorList(st, d) :
                    ( /\ NamesLogger(st[m], ClNames(st))
                      /\ d < n /\ n <= EndLineno(st, d)
                      /\ CommentMatch(lines[n])
                      /\ PreCommentCode(lines[n]) # <<>> )
                    => PrecededBy(n, StatementFor(lines[n], st[m].arg))

\* C2 as amended: a line whose innermost enclosing function definition bears
\* the name of an instrumented function, with code free of '@' and a trailing
\* comment classified as (L, m), has right before it in the output its own
\* indentation followed by <logger>.<L in lower case>("m"), the logger being
\* the one of the file: that of the marker call the tree walk meets last.
C2_StatementOfInstrumentedName ==
    pc = "done" =>
        LET st == Stmts(sourceCode)
        IN  Parses(st) =>
                \A n \in DOMAIN lines :
                    ( /\ Covering(st, n) # {}
                      /\ \E d \in Defs(st) : OptedIn(st, d) /\ st[d].name = st[Innermost(st, n)].name
                      /\ CommentMatch(lines[n])
                      /\ PreCommentCode(lines[n]) # <<>>
                      /\ "@" \notin Range(PreCommentCode(lines[n])) )
                    => PrecededBy(n, StatementFor(lines[n], st[LastHit(st)[2]].arg))

\* an indented line of a function nested in another has a statement injected
\* before it, with a logger taken from a decorator
C2_Witness ==
    /\ pc = "done"
    /\ loggerName # DefaultLogger
    /\ \E k \in From("inject") :
          /\ SubSeq(newLines[k], 1, 2) = <<" ", " ">>
          /\ newLines[k + 1] = lines[origin[k].line]

\* C3: every injected statement stands before a line whose own (innermost)
\* function definition carries a marker call naming a logger; lines of other
\* function definitions, and lines outside functions, get none.
C3_OnlyOptedInFunctions ==
    pc = "done" =>
        LET st == Stmts(sourceCode)
        IN  \A k \in From("inject") :
                /\ Covering(st, origin[k].line) # {}
                /\ OptedIn(st, Innermost(st, origin[k].line))

\* a line the bootstrap may go in front of, as C4 has it
Qualifies(line) ==
    LET text == Strip(line)
    IN  /\ text # <<>>
        /\ Head(text) # "#"
        /\ ~\E quotes \in {TripleDouble, TripleSingle} : StartsWith(text, quotes)

\* the bootstrap is in the output once, as 'import logging' and an empty line,
\* ahead of everything that comes from line q on and behind the rest
BootstrapBefore(q) ==
    \E p \in DOMAIN newLines :
        /\ From("bootstrap") = {p, p + 1}
        /\ newLines[p] = ImportLogging
        /\ newLines[p + 1] = <<>>
        /\ \A k \in DOMAIN origin :
              /\ k < p => origin[k].line < q
              /\ k > p + 1 => origin[k].line >= q

\* the first of a set of line numbers
First(ns) == CHOOSE n \in ns : \A m \in ns : n <= m

\* C4 as stated: the bootstrap is inserted at most once; it is inserted if and
\* only if the source does not import logging and has a line that is not
\* blank, not a comment and not the start of a docstring; and it stands right
\* before the first such line.
C4_BootstrapBeforeFirstCode ==
    pc = "done" =>
        LET sites == {n \in DOMAIN lines : Qualifies(lines[n])}
        IN  IF Contains(sourceCode, ImportLogging) \/ sites = {}
                THEN From("bootstrap") = {}
                ELSE BootstrapBefore(First(sites))

\* C4 as amended: the same, the first line of the file never counting as the
\* line the bootstrap goes in front of.
C4_BootstrapBeforeFirstCodeAfterLineOne ==
    pc = "done" =>
        LET sites == {n \in DOMAIN lines : n > 1 /\ Qualifies(lines[n])}
        IN  IF Contains(sourceCode, ImportLogging) \/ sites = {}
                THEN From("bootstrap") = {}
                ELSE BootstrapBefore(First(sites))

\* the bootstrap went in front of a line that follows comment lines only
C4_Witness ==
    /\ pc = "done"
    /\ \E p \in From("bootstrap") :
          /\ origin[p].line > 1
          /\ \A n \in 1..(origin[p].line - 1) : ~Qualifies(lines[n])

\* C6: the transform of the first transform's output injects nothing: once
\* logging is imported, every line of the second output is a line of its input.
C6_SecondRunInjectsNothing ==
    (pc = "done" /\ run = 2 /\ importsLogging) =>
        /\ From("inject") = {}
        /\ From("bootstrap") = {}

\* C8: a statement is injected before a line only if its comment is not
\* empty, the code before the '#' is not empty and holds no '@', and the
\* function name its line number maps to is instrumented.
C8_FourConditions ==
    pc = "done" =>
        \A k \in From("inject") :
            LET n == origin[k].line
            IN  /\ CommentText(lines[n]) # <<>>
                /\ PreCommentCode(lines[n]) # <<>>
                /\ "@" \notin Range(PreCommentCode(lines[n]))
                /\ n \in DOMAIN lineToFunction
                /\ lineToFunction[n] \in decoratedFunctions

\* the names of the logging table that have the given level
SameLevel(v) == {NameToLevel[n].k : n \in {m \in DOMAIN NameToLevel : NameToLevel[m].v = v}}

\* s is a proper prefix of t
StrictPrefix(s, t) == Len(s) < Len(t) /\ SubSeq(t, 1, Len(s)) = s

\* the level of a name of the logging table
LevelOf(name) == NameToLevel[CHOOSE n \in DOMAIN NameToLevel : NameToLevel[n].k = name].v

\* no canonical name is a proper prefix of another of the same level
PrefixFree ==
    \A s, t \in Canonical : ~(StrictPrefix(s, t) /\ LevelOf(s) = LevelOf(t))

\* C9 as stated: no canonical name is a proper prefix of another of the same
\* level, and of the names that share a level only the shortest is canonical.
C9_ShortestOfEachLevel ==
    /\ PrefixFree
    /\ \A n \in DOMAIN NameToLevel :
          LET group == SameLevel(NameToLevel[n].v)
          IN  NameToLevel[n].k \in Canonical
                  <=> \A other \in group : Len(NameToLevel[n].k) <= Len(other)

\* C9 as amended: no canonical name is a proper prefix of another of the same
\* level; a name of the logging table is left out exactly when it is a proper
\* prefix of another name of its level, so that the longer name stays and
\* names of one level that do not prefix each other all stay; the list is in
\* sorted order; and it is this list in every state, whatever has run.
C9_LongerOfPrefixPairs ==
    /\ PrefixFree
    /\ \A n \in DOMAIN NameToLevel :
          NameToLevel[n].k \in Canonical
              <=> ~\E other \in SameLevel(NameToLevel[n].v) :
                      StrictPrefix(NameToLevel[n].k, other)
    /\ Canonical \subseteq {NameToLevel[n].k : n \in DOMAIN NameToLevel}
    /\ \A a, b \in DOMAIN LOGLEVELS : a < b => StrLess(LOGLEVELS[a], LOGLEVELS[b])

\* a transform that called parseComment has finished, with WARNING canonical,
\* WARN not, and CRITICAL and FATAL both canonical
C9_Witness ==
    /\ pc = "done"
    /\ From("inject") # {}
    /\ WARNING \in Canonical
    /\ WARN \notin Canonical
    /\ {CRITICAL, FATAL} \subseteq Canonical

=============================================================================
